---- MODULE Spec2Model ----
(***************************************************************************)
(* Model of dataframe_to_turtle.py: convert_dataframe_to_turtle (the       *)
(* Turtle emitter) and add_prefixes_to_config (prefix synthesis).          *)
(*                                                                         *)
(* A Python str is a sequence of one-character strings, so that slicing,   *)
(* str.replace, str.split and "\n".join are computed character by          *)
(* character.  A dict is a sequence of [k, v] entries in insertion order.  *)
(* The source is read as Python 3.12 reads it: the f-string of the plain   *)
(* literal nests quotes and a backslash inside its replacement field.      *)
(***************************************************************************)
EXTENDS Integers, Sequences, FiniteSets, TLC

VARIABLES
    dataframe,  \* the caller's dataframe: its columns, its index and its rows
    config,     \* the config of the call (of add_prefixes_to_config: its argument)
    pc,         \* idle, or where the call is: prefixes, rows, returned, raised
    lines,      \* the list lines of the call
    row_pos,    \* the row dataframe.iterrows() yields next
    result,     \* the text returned, empty while nothing is returned
    printed     \* the columns named by the warning printed in the call

vars == <<dataframe, config, pc, lines, row_pos, result, printed>>

\* Largest number of rows of a dataset.
MaxRows == 2

(***************************************************************************)
(* Python built-ins used by the program.                                   *)
(***************************************************************************)

\* ''.join / str concatenation of a list of strings with a separator.
RECURSIVE Join(_, _)
Join(parts, sep) ==
    IF parts = <<>> THEN <<>>
    ELSE IF Len(parts) = 1 THEN parts[1]
    ELSE parts[1] \o sep \o Join(Tail(parts), sep)

\* str.replace(old, new) for a one-character old.
RECURSIVE Replace(_, _, _)
Replace(s, old, new) ==
    IF s = <<>> THEN <<>>
    ELSE (IF Head(s) = old THEN new ELSE <<Head(s)>>) \o Replace(Tail(s), old, new)

\* The position of the first occurrence of sub in s, 0 when there is none.
Find(s, sub) ==
    LET hits == {p \in 1..(Len(s) - Len(sub) + 1) : SubSeq(s, p, p + Len(sub) - 1) = sub}
    IN IF hits = {} THEN 0 ELSE CHOOSE p \in hits : \A q \in hits : p <= q

\* sub in s
Contains(s, sub) == Find(s, sub) # 0

\* s.split(sep, 1) of a string that contains sep: the part before and the part after.
SplitOnce(s, sep) ==
    LET p == Find(s, sep)
    IN <<SubSeq(s, 1, p - 1), SubSeq(s, p + Len(sep), Len(s))>>

Digit(d) == <<"0", "1", "2", "3", "4", "5", "6", "7", "8", "9">>[d + 1]

RECURSIVE NatToStr(_)
NatToStr(n) ==
    IF n < 10 THEN <<Digit(n)>> ELSE NatToStr(n \div 10) \o <<Digit(n % 10)>>

\* str(n) of a Python int.
IntToStr(n) == IF n < 0 THEN <<"-">> \o NatToStr(-n) ELSE NatToStr(n)

Abs(n) == IF n < 0 THEN -n ELSE n

\* str(x) of a Python float, x given in tenths: 125 is 12.5 and prints "12.5",
\* 300 is 30.0 and prints "30.0".
FloatToStr(tenths) ==
    (IF tenths < 0 THEN <<"-">> ELSE <<>>)
        \o NatToStr(Abs(tenths) \div 10) \o <<".">> \o <<Digit(Abs(tenths) % 10)>>

(***************************************************************************)
(* Cell values: a str, an int, a float (in tenths) or the missing value    *)
(* NaN.                                                                    *)
(***************************************************************************)
NaN == [t |-> "nan", n |-> 0, s |-> <<>>]
PyStr(s) == [t |-> "str", n |-> 0, s |-> s]
PyInt(n) == [t |-> "int", n |-> n, s |-> <<>>]
PyFloat(tenths) == [t |-> "float", n |-> tenths, s |-> <<>>]

\* The test "not value", which takes 0 and "" for missing as well.
IsNaFalsy(value) ==
    \/ value.t = "nan"
    \/ value.t \in {"int", "float"} /\ value.n = 0
    \/ value.t = "str" /\ value.s = <<>>

\* pd.isna(value)
IsNa(value) == value.t = "nan"

\* isinstance(value, (int, float))
IsNumber(value) == value.t \in {"int", "float"}

\* int(value) of a number: a float is truncated toward zero.
ToInt(value) ==
    IF value.t = "int" THEN value.n
    ELSE IF value.n >= 0 THEN value.n \div 10 ELSE -((-value.n) \div 10)

\* str(value), which is also what an f-string field {value} prints.
Format(value) ==
    CASE value.t = "str" -> value.s
      [] value.t = "int" -> IntToStr(value.n)
      [] value.t = "float" -> FloatToStr(value.n)
      [] OTHER -> <<"n", "a", "n">>

(***************************************************************************)
(* dicts                                                                   *)
(***************************************************************************)
Has(d, key) == \E p \in 1..Len(d) : d[p].k = key

Get(d, key) == d[CHOOSE p \in 1..Len(d) : d[p].k = key].v

\* d[key] = value: an existing key keeps its place, a new key goes last.
Put(d, key, value) ==
    IF Has(d, key)
    THEN [p \in 1..Len(d) |-> IF d[p].k = key THEN [k |-> key, v |-> value] ELSE d[p]]
    ELSE Append(d, [k |-> key, v |-> value])

(***************************************************************************)
(* convert_dataframe_to_turtle                                             *)
(***************************************************************************)
ColumnsOf(mappings_list) ==
    [p \in 1..Len(mappings_list) |-> Get(mappings_list[p], "column")]

\* [m["column"] for m in mappings_list if m["column"] in dataframe.columns]
valid_column_names(df, mappings_list) ==
    SelectSeq(ColumnsOf(mappings_list), LAMBDA c : c \in df.columns)

\* {m["column"]: m for m in mappings_list if ...}[column_name]: a later entry
\* for the same column replaces an earlier one.
mapping_index(mappings_list, column_name) ==
    LET at == {p \in 1..Len(mappings_list) : Get(mappings_list[p], "column") = column_name}
    IN mappings_list[CHOOSE p \in at : \A q \in at : q <= p]

\* [m["column"] for m in mappings_list if m["column"] not in dataframe.columns]
missing(df, mappings_list) ==
    SelectSeq(ColumnsOf(mappings_list), LAMBDA c : c \notin df.columns)

\* The call without its check for an empty dataframe.
EmptySkipped(df) == FALSE

\* dataframe.empty
Empty(df) == Len(df.rows) = 0 \/ df.columns = {}

\* The subject column named by the config is not a column of the dataframe.
SubjectColumnAbsent(df, subject_index) ==
    subject_index # <<>> /\ subject_index \notin df.columns

\* The branch order that tests "language" before "prefix".
ObjectStrLanguageFirst(mapping, value) ==
    IF Has(mapping, "language")
    THEN <<"\"">> \o Format(value) \o <<"\"", "@">> \o Get(mapping, "language")
    ELSE IF Has(mapping, "prefix")
    THEN Get(mapping, "prefix") \o <<":">> \o Replace(Format(value), " ", <<>>)
    ELSE IF Has(mapping, "data_type")
    THEN <<"\"">> \o Format(value) \o <<"\"", "^", "^">> \o Get(mapping, "data_type")
    ELSE IF IsNumber(value)
    THEN IntToStr(ToInt(value))
    ELSE <<"\"">> \o Replace(value.s, "\"", <<"\\", "\"">>) \o <<"\"">>

\* The variant with no typed-literal quotes around a number.
ObjectStrBareTypedNumber(mapping, value) ==
    IF Has(mapping, "prefix")
    THEN Get(mapping, "prefix") \o <<":">> \o Replace(Format(value), " ", <<>>)
    ELSE IF Has(mapping, "language")
    THEN <<"\"">> \o Format(value) \o <<"\"", "@">> \o Get(mapping, "language")
    ELSE IF Has(mapping, "data_type")
    THEN IF IsNumber(value)
         THEN Format(value) \o <<"^", "^">> \o Get(mapping, "data_type")
         ELSE <<"\"">> \o Format(value) \o <<"\"", "^", "^">> \o Get(mapping, "data_type")
    ELSE IF IsNumber(value)
    THEN IntToStr(ToInt(value))
    ELSE <<"\"">> \o Replace(value.s, "\"", <<"\\", "\"">>) \o <<"\"">>

\* "Format object": the object term of a cell under its mapping.
ObjectStr(mapping, value) ==
    IF Has(mapping, "prefix")
    THEN Get(mapping, "prefix") \o <<":">> \o Replace(Format(value), " ", <<>>)
    ELSE IF Has(mapping, "language")
    THEN <<"\"">> \o Format(value) \o <<"\"", "@">> \o Get(mapping, "language")
    ELSE IF Has(mapping, "data_type")
    THEN <<"\"">> \o Format(value) \o <<"\"", "^", "^">> \o Get(mapping, "data_type")
    ELSE IF IsNumber(value)
    THEN IntToStr(ToInt(value))
    ELSE <<"\"">> \o Replace(value.s, "\"", <<"\\", "\"">>) \o <<"\"">>

\* The statement lines of a row, before their terminators.
RECURSIVE predicate_lines(_, _, _)
predicate_lines(row, column_names, mappings_list) ==
    IF column_names = <<>> THEN <<>>
    ELSE LET column_name == Head(column_names)
             mapping == mapping_index(mappings_list, column_name)
             value == row[column_name]
             rest == predicate_lines(row, Tail(column_names), mappings_list)
         IN IF IsNa(value) THEN rest
            ELSE << <<" ", " ", " ", " ">> \o Get(mapping, "predicate") \o <<" ">>
                        \o ObjectStr(mapping, value) >> \o rest

\* The terminator that never closes the block.
EndAlwaysSemicolon(i, n) == <<" ", ";">>

\* The terminator of the i-th of n statement lines (i counted from 0).
End(i, n) == IF i = n - 1 THEN <<" ", ".">> ELSE <<" ", ";">>

\* lines[-1] = lines[-1][:-1] + " ."
FixTrailing(ls) ==
    [ls EXCEPT ![Len(ls)] = SubSeq(@, 1, Len(@) - 1) \o <<" ", ".">>]

\* One pass of the loop over dataframe.iterrows(): the lines after the block of
\* the row at subject_id has been appended.
WithBlock(ls, subject_id, row, cfg, df) ==
    LET subject_str == cfg.subject.prefix \o <<":">> \o Format(subject_id)
        header == subject_str \o <<" ", "a", " ">>
                      \o Join(cfg.subject.classes, <<",", " ">>) \o <<" ", ";">>
        pl == predicate_lines(row, valid_column_names(df, cfg.mappings), cfg.mappings)
        ended == [p \in 1..Len(pl) |-> pl[p] \o End(p - 1, Len(pl))]
        appended == (ls \o <<header>>) \o ended
        fixed == IF pl = <<>> THEN FixTrailing(appended) ELSE appended
    IN Append(fixed, <<>>)

\* f"@prefix {prefix}: <{uri}> ." for every entry of prefixes, then a blank line.
PrefixLines(prefixes) ==
    Append([p \in 1..Len(prefixes) |->
                <<"@", "p", "r", "e", "f", "i", "x", " ">> \o prefixes[p].k
                    \o <<":", " ", "<">> \o prefixes[p].v \o <<">", " ", ".">>],
           <<>>)

(***************************************************************************)
(* Inputs: datasets and configs.                                           *)
(***************************************************************************)
ColId == <<"i", "d">>
ColA == <<"a">>
ColB == <<"b">>
ColC == <<"c">>

\* The columns of every dataset; ColC is a column no dataset has.
Columns == {ColId, ColA, ColB}

MkRow(a, b) == [c \in Columns |-> IF c = ColId THEN PyStr(<<"k">>) ELSE IF c = ColA THEN a ELSE b]

\* The rows datasets are made of: missing cells, the falsy values 0 and "", a
\* float that is no integer, a string with a space and a double quote, and a
\* prefixed name.
RowPool ==
    { MkRow(NaN, NaN),
      MkRow(NaN, PyStr(<<"B">>)),
      MkRow(PyInt(0), PyStr(<<"B">>)),
      MkRow(PyFloat(125), NaN),
      MkRow(PyStr(<<>>), PyStr(<<"B">>)),
      MkRow(PyStr(<<"s", " ", "\"">>), PyStr(<<"B">>)),
      MkRow(PyStr(<<"f", ":", "B">>), NaN) }

\* The default index of a dataframe of n rows: 0, 1, ..., n - 1.
RangeIndex(n) == [p \in 1..n |-> PyInt(p - 1)]

Datasets ==
    { [columns |-> Columns, index |-> RangeIndex(Len(rows)), rows |-> rows] :
        rows \in UNION {[1..n -> RowPool] : n \in 0..MaxRows} }

OptionalKeys == {"prefix", "language", "data_type"}

OptionalValue(key) ==
    CASE key = "prefix" -> <<"e">>
      [] key = "language" -> <<"e", "n">>
      [] key = "data_type" -> <<"x", ":", "i">>
      [] OTHER -> <<"r", "e", "l", "a", "t", "i", "o", "n">>

\* The optional keys of a mapping entry, in every order they can be written in;
\* and an entry marked type: relation that has no prefix.
KeyOrders ==
    { ks \in UNION {[1..n -> OptionalKeys] : n \in 0..3} :
        \A p, q \in 1..Len(ks) : p # q => ks[p] # ks[q] } \cup {<<"type">>}

Mapping(column, predicate, ks) ==
    <<[k |-> "column", v |-> column], [k |-> "predicate", v |-> predicate]>>
        \o [p \in 1..Len(ks) |-> [k |-> ks[p], v |-> OptionalValue(ks[p])]]

MappingA(ks) == Mapping(ColA, <<"p", ":", "a">>, ks)
MappingB == Mapping(ColB, <<"p", ":", "b">>, <<>>)
MappingC == Mapping(ColC, <<"p", ":", "c">>, <<>>)

\* The mapping of column a with every order of its optional keys, before the
\* mapping of column b; and lists that start with a mapping of the absent column.
\* The columns of a list are distinct, as the config's schema requires.
MappingLists ==
    {<<MappingA(ks), MappingB>> : ks \in KeyOrders}
        \cup {<<MappingC, MappingA(<<"language">>)>>, <<MappingC, MappingA(<<>>)>>,
              <<MappingC>>}

BasePrefixes == <<[k |-> <<"e">>, v |-> <<"U">>], [k |-> <<"p">>, v |-> <<"V">>]>>

\* The subject columns a config names: none, a column of the dataset, and a
\* column the dataset does not have.
SubjectColumns == {<<>>, ColId, <<"z">>}

Config(sc, ml) ==
    [prefixes |-> BasePrefixes,
     subject |-> [column |-> sc, prefix |-> <<"e">>,
                  classes |-> << <<"e", ":", "C">>, <<"e", ":", "D">> >>],
     mappings |-> ml]

\* Every mapping list with the row's natural identifier as the subject, and three
\* of them with each subject column.
Configs ==
    {Config(<<>>, ml) : ml \in MappingLists}
        \cup {Config(sc, ml) :
                sc \in SubjectColumns,
                ml \in {<<MappingC>>, <<MappingA(<<>>), MappingB>>,
                        <<MappingC, MappingA(<<"language">>)>>}}

(***************************************************************************)
(* The steps of a call of convert_dataframe_to_turtle(dataframe, config).  *)
(***************************************************************************)
Init ==
    /\ dataframe \in Datasets
    /\ config = Config(<<>>, <<MappingC>>)
    /\ pc = "idle"
    /\ lines = <<>>
    /\ row_pos = 0
    /\ result = <<>>
    /\ printed = <<>>

\* The call up to "lines = []": the empty check, the warning, the index.
Call(cfg) ==
    /\ pc \in {"idle", "returned", "raised"}
    /\ config' = cfg
    /\ lines' = <<>>
    /\ result' = <<>>
    /\ row_pos' = 0
    /\ IF Empty(dataframe)
       THEN /\ pc' = "raised"
            /\ printed' = <<>>
            /\ UNCHANGED dataframe
       ELSE /\ printed' = missing(dataframe, cfg.mappings)
            /\ IF SubjectColumnAbsent(dataframe, cfg.subject.column)
               THEN /\ pc' = "raised"
                    /\ UNCHANGED dataframe
               ELSE /\ pc' = "prefixes"
                    /\ dataframe' =
                         IF cfg.subject.column # <<>>
                         THEN [dataframe EXCEPT !.index =
                                 [p \in 1..Len(dataframe.rows) |->
                                     dataframe.rows[p][cfg.subject.column]]]
                         ELSE dataframe

\* "Write prefixes"
WritePrefixes ==
    /\ pc = "prefixes"
    /\ lines' = lines \o PrefixLines(config.prefixes)
    /\ row_pos' = 1
    /\ pc' = "rows"
    /\ UNCHANGED <<dataframe, config, result, printed>>

\* "Write triples": one pass of the loop over the rows.
WriteRow ==
    /\ pc = "rows"
    /\ row_pos <= Len(dataframe.rows)
    /\ lines' = WithBlock(lines, dataframe.index[row_pos], dataframe.rows[row_pos],
                          config, dataframe)
    /\ row_pos' = row_pos + 1
    /\ UNCHANGED <<dataframe, config, pc, result, printed>>

\* return "\n".join(lines)
Return ==
    /\ pc = "rows"
    /\ row_pos > Len(dataframe.rows)
    /\ result' = Join(lines, <<"\n">>)
    /\ pc' = "returned"
    /\ UNCHANGED <<dataframe, config, lines, row_pos, printed>>

Next ==
    \/ \E cfg \in Configs : Call(cfg)
    \/ WritePrefixes
    \/ WriteRow
    \/ Return

Spec == Init /\ [][Next]_vars

(***************************************************************************)
(* add_prefixes_to_config                                                  *)
(***************************************************************************)
\* handle_prefixed_term(term): the dict prefixes after the call.
handle_prefixed_term(prefixes, term, ontology_base_uri, class_base_uri, separator) ==
    LET t == Replace(term, ":", separator)
    IN IF ~Contains(t, separator) THEN prefixes
       ELSE LET ontology == SplitOnce(t, separator)[1]
                cls == SplitOnce(t, separator)[2]
                with_ontology ==
                    IF ~Has(prefixes, ontology)
                    THEN Put(prefixes, ontology,
                             ontology_base_uri \o <<"/">> \o ontology \o <<"/">>)
                    ELSE prefixes
                class_key == ontology \o separator \o cls
            IN IF ~Has(with_ontology, class_key)
               THEN Put(with_ontology, class_key,
                        class_base_uri \o <<"/">> \o ontology \o <<"/">> \o cls \o <<"/">>)
               ELSE with_ontology

\* The terms of one mapping, in the order they are handled.
MappingTerms(mapping) ==
    (IF Has(mapping, "predicate") THEN <<Get(mapping, "predicate")>> ELSE <<>>)
        \o (IF Has(mapping, "prefix") THEN <<Get(mapping, "prefix")>> ELSE <<>>)

RECURSIVE MappingsTerms(_)
MappingsTerms(mappings_list) ==
    IF mappings_list = <<>> THEN <<>>
    ELSE MappingTerms(Head(mappings_list)) \o MappingsTerms(Tail(mappings_list))

\* Every term handled: the subject's prefix, its classes, then the mappings.
Terms(cfg) ==
    <<cfg.subject.prefix>> \o cfg.subject.classes \o MappingsTerms(cfg.mappings)

RECURSIVE HandleAll(_, _, _, _, _)
HandleAll(prefixes, terms, ontology_base_uri, class_base_uri, separator) ==
    IF terms = <<>> THEN prefixes
    ELSE HandleAll(handle_prefixed_term(prefixes, Head(terms), ontology_base_uri,
                                        class_base_uri, separator),
                   Tail(terms), ontology_base_uri, class_base_uri, separator)

\* prefixes = {} ... config["prefixes"] = prefixes
add_prefixes_to_config(cfg, ontology_base_uri, class_base_uri, separator) ==
    [cfg EXCEPT !.prefixes =
        HandleAll(<<>>, Terms(cfg), ontology_base_uri, class_base_uri, separator)]

AddPrefixes(ontology_base_uri, class_base_uri, separator) ==
    /\ pc = "idle"
    /\ config' = add_prefixes_to_config(config, ontology_base_uri, class_base_uri, separator)
    /\ UNCHANGED <<dataframe, pc, lines, row_pos, result, printed>>

\* The configs prefixes are synthesized for: with and without a prefixes section
\* written by the user, with terms that hold ":", "-" or no separator.
PrefixConfigs ==
    { [prefixes |-> ps,
       subject |-> [column |-> <<>>, prefix |-> sp, classes |-> cs],
       mappings |-> ml] :
        ps \in {<<>>, BasePrefixes, <<[k |-> <<"x">>, v |-> <<"X">>]>>},
        sp \in {<<"e">>, <<"e", "-", "s">>, <<"f", ":", "s">>},
        cs \in {<< <<"e", ":", "C">>, <<"e", ":", "D">> >>, << <<"f", "-", "C">> >>},
        ml \in {<<MappingC>>, <<MappingA(<<"prefix">>), MappingB>>} }

BaseUris == {<<"O">>, <<"D">>}

Separators == {<<"-">>, <<"_">>}

InitPrefixes ==
    /\ dataframe \in {d \in Datasets : d.rows = <<>>}
    /\ config \in PrefixConfigs
    /\ pc = "idle"
    /\ lines = <<>>
    /\ row_pos = 0
    /\ result = <<>>
    /\ printed = <<>>

NextPrefixes ==
    \E o \in BaseUris, c \in BaseUris, sep \in Separators : AddPrefixes(o, c, sep)

SpecPrefixes == InitPrefixes /\ [][NextPrefixes]_vars

(***************************************************************************)
(* Reading the returned text back: its lines, and the subject blocks.      *)
(***************************************************************************)
\* The parts of s between the occurrences of the element x.
RECURSIVE Split(_, _)
Split(s, x) ==
    LET hits == {p \in 1..Len(s) : s[p] = x}
    IN IF hits = {} THEN <<s>>
       ELSE LET p == CHOOSE h \in hits : \A q \in hits : h <= q
            IN <<SubSeq(s, 1, p - 1)>> \o Split(SubSeq(s, p + 1, Len(s)), x)

StartsWith(s, pre) == Len(s) >= Len(pre) /\ SubSeq(s, 1, Len(pre)) = pre

EndsWith(s, suf) == Len(s) >= Len(suf) /\ SubSeq(s, Len(s) - Len(suf) + 1, Len(s)) = suf

OutLines == Split(result, "\n")

\* The groups of lines between blank lines: the prefix declarations, then one
\* group per subject block, then the empty group after the last blank line.
Groups == Split(OutLines, <<>>)

NRows == Len(dataframe.rows)

\* The subject blocks of the returned text, in row order.
Blocks == SubSeq(Groups, 2, NRows + 1)

\* The start of the statement line of a mapping.
LineStart(mapping) == <<" ", " ", " ", " ">> \o Get(mapping, "predicate") \o <<" ">>

HasLine(block, mapping) ==
    \E j \in 2..Len(block) : StartsWith(block[j], LineStart(mapping))

\* The object term of the statement line of a mapping in a block: the line
\* without its start and without its two-character terminator.
ObjectOf(block, mapping) ==
    LET j == CHOOSE i \in 2..Len(block) : StartsWith(block[i], LineStart(mapping))
    IN SubSeq(block[j], Len(LineStart(mapping)) + 1, Len(block[j]) - 2)

\* The mappings of the config that apply to the dataset.
Applied == {p \in 1..Len(config.mappings) :
               Get(config.mappings[p], "column") \in dataframe.columns}

Cell(k, mapping) == dataframe.rows[k][Get(mapping, "column")]

\* The (row, mapping) pairs with a cell that is not missing.
Present == {km \in (1..NRows) \X Applied : Cell(km[1], config.mappings[km[2]]).t # "nan"}

Quote == "\""

LanguageSuffix(mapping) == <<Quote, "@">> \o Get(mapping, "language")

DatatypeSuffix(mapping) == <<Quote, "^", "^">> \o Get(mapping, "data_type")

\* C1: in the returned text every subject block ends with its only line ending
\* in " .", and every line before it ends with " ;"; a block of the header alone
\* has the header end with " .".
TerminatorCorrectness ==
    pc = "returned" => LET groups == Groups
                           blocks == SubSeq(groups, 2, NRows + 1) IN
        /\ Len(groups) = NRows + 2
        /\ \A k \in 1..NRows :
              /\ Len(blocks[k]) >= 1
              /\ EndsWith(blocks[k][Len(blocks[k])], <<" ", ".">>)
              /\ \A j \in 1..(Len(blocks[k]) - 1) :
                    /\ EndsWith(blocks[k][j], <<" ", ";">>)
                    /\ ~EndsWith(blocks[k][j], <<" ", ".">>)

\* A text with a block of a header and two statements and a block of a header alone.
TerminatorWitness ==
    /\ pc = "returned"
    /\ LET blocks == Blocks
       IN /\ \E k \in 1..NRows : Len(blocks[k]) = 3
          /\ \E k \in 1..NRows : Len(blocks[k]) = 1

\* C2: the block of a row has a statement line for an applied mapping exactly
\* when the row's cell for the mapping's column is not missing; 0 and "" are
\* not missing.
MissingValueOmission ==
    pc = "returned" => LET blocks == Blocks IN
        \A k \in 1..NRows : \A p \in Applied :
            HasLine(blocks[k], config.mappings[p]) <=> Cell(k, config.mappings[p]).t # "nan"

\* A text with the statement of a 0 or of an empty string, and with a row whose
\* mapped cell is missing and has no statement.
MissingValueWitness ==
    /\ pc = "returned"
    /\ LET blocks == Blocks
       IN /\ \E k \in 1..NRows : \E p \in Applied :
                /\ Cell(k, config.mappings[p]) \in {PyInt(0), PyStr(<<>>)}
                /\ HasLine(blocks[k], config.mappings[p])
          /\ \E k \in 1..NRows : \E p \in Applied :
                /\ Cell(k, config.mappings[p]) = NaN
                /\ ~HasLine(blocks[k], config.mappings[p])

\* Every unescaped double quote of s: one that no backslash precedes.
Unescaped(s) == {p \in 1..Len(s) : s[p] = Quote /\ (p = 1 \/ s[p - 1] # "\\")}

\* The text between the delimiters of a quoted object term.
Inner(obj, mapping) ==
    IF Has(mapping, "language")
    THEN SubSeq(obj, 2, Len(obj) - Len(LanguageSuffix(mapping)))
    ELSE IF Has(mapping, "data_type")
    THEN SubSeq(obj, 2, Len(obj) - Len(DatatypeSuffix(mapping)))
    ELSE SubSeq(obj, 2, Len(obj) - 1)

\* C3: a string value with a double quote is written with every double quote
\* escaped, under a plain, a language-tagged and a typed literal mapping alike.
EscapingAllKinds ==
    pc = "returned" => LET blocks == Blocks IN
        \A km \in Present :
            LET m == config.mappings[km[2]]
                value == Cell(km[1], m)
            IN (~Has(m, "prefix") /\ value.t = "str" /\ Contains(value.s, <<Quote>>))
                  => Unescaped(Inner(ObjectOf(blocks[km[1]], m), m)) = {}

\* Wrapped in double quotes: the term starts with one and its literal part ends
\* with one.
Wrapped(obj, mapping) ==
    /\ StartsWith(obj, <<Quote>>)
    /\ IF Has(mapping, "language") THEN EndsWith(obj, LanguageSuffix(mapping))
       ELSE IF Has(mapping, "data_type") THEN EndsWith(obj, DatatypeSuffix(mapping))
       ELSE EndsWith(obj, <<Quote>>) /\ Len(obj) >= 2

IsPlain(mapping) ==
    ~Has(mapping, "prefix") /\ ~Has(mapping, "language") /\ ~Has(mapping, "data_type")

\* What C4 says of plain, typed, language-tagged and prefixed mappings.
QuotingOfKinds(blocks, km) ==
    LET m == config.mappings[km[2]]
        value == Cell(km[1], m)
        obj == ObjectOf(blocks[km[1]], m)
    IN /\ (IsPlain(m) /\ value.t \in {"int", "float"}) => ~Contains(obj, <<Quote>>)
       /\ (~Has(m, "prefix") /\ (Has(m, "language") \/ Has(m, "data_type")))
             => Wrapped(obj, m)
       /\ Has(m, "prefix")
             => /\ StartsWith(obj, Get(m, "prefix") \o <<":">>)
                /\ ~StartsWith(obj, <<Quote>>)

KindPrecedence ==
    pc = "returned" => LET blocks == Blocks IN
        \A km \in Present :
            LET m == config.mappings[km[2]]
                obj == ObjectOf(blocks[km[1]], m)
            IN /\ Has(m, "prefix")
                     => /\ obj = Get(m, "prefix") \o <<":">>
                                   \o SelectSeq(Format(Cell(km[1], m)), LAMBDA c : c # " ")
               /\ (~Has(m, "prefix") /\ Has(m, "language"))
                     => Wrapped(obj, m) /\ EndsWith(obj, LanguageSuffix(m))
               /\ (~Has(m, "prefix") /\ ~Has(m, "language") /\ Has(m, "data_type"))
                     => Wrapped(obj, m) /\ EndsWith(obj, DatatypeSuffix(m))

\* A text from an entry whose keys are written data_type, language, prefix, and
\* a cell that is not missing.
KindPrecedenceWitness ==
    /\ pc = "returned"
    /\ \E km \in Present :
          LET m == config.mappings[km[2]]
          IN /\ Len(m) = 5
             /\ m[3].k = "data_type" /\ m[4].k = "language" /\ m[5].k = "prefix"

\* The fatal inputs: no rows, or a subject column the dataset does not have.
Fatal ==
    \/ Len(dataframe.rows) = 0
    \/ config.subject.column # <<>> /\ config.subject.column \notin dataframe.columns

\* C6: a call on a fatal input ends raised, with no line produced at any step
\* and no text returned.
FailFast ==
    (pc # "idle" /\ Fatal) => (pc = "raised" /\ lines = <<>> /\ result = <<>>)

\* A call raised for a subject column that rows of the dataset do not have.
FailFastWitness ==
    pc = "raised" /\ Len(dataframe.rows) > 0 /\ config.subject.column = <<"z">>

\* C7: every entry of config["prefixes"] before a call of add_prefixes_to_config
\* is an entry of it after the call, with the same uri.
PrefixesKept ==
    [][\A p \in 1..Len(config.prefixes) :
          /\ Has(config'.prefixes, config.prefixes[p].k)
          /\ Get(config'.prefixes, config.prefixes[p].k) = config.prefixes[p].v]_vars

\* C8: the rows of the dataset keep their natural identifiers 0, 1, ... over
\* every call.
DatasetReadOnly == dataframe.index = RangeIndex(Len(dataframe.rows))

\* C9: the block of a row with no statement is the header with its " ;" replaced
\* by " .": one space before the dot.
HeaderRewrite ==
    pc = "returned" => LET blocks == Blocks IN
        \A k \in 1..NRows :
            Len(blocks[k]) = 1 =>
                blocks[k][1] = config.subject.prefix \o <<":">> \o Format(dataframe.index[k])
                                  \o <<" ", "a", " ">>
                                  \o Join(config.subject.classes, <<",", " ">>)
                                  \o <<" ", ".">>

\* The texts that denote a number: the digits of an integer, the decimal form
\* of a float, and for a float that is an integer its digits as well.
Canonical(value) ==
    IF value.t = "int" THEN {IntToStr(value.n)}
    ELSE IF value.n % 10 = 0 THEN {FloatToStr(value.n), IntToStr(value.n \div 10)}
    ELSE {FloatToStr(value.n)}

\* C10: a number under a plain literal mapping is written as a text that denotes
\* the same number.
NumericPlainLiteral ==
    pc = "returned" => LET blocks == Blocks IN
        \A km \in Present :
            LET m == config.mappings[km[2]]
                value == Cell(km[1], m)
            IN (IsPlain(m) /\ value.t \in {"int", "float"})
                  => ObjectOf(blocks[km[1]], m) \in Canonical(value)

====
